---- MODULE Spec2Model ----
(***************************************************************************)
(* A model of quobyte/convert-acl-2x-to-3x:                                *)
(*   - convert_acl.py: TextAce, Acl (the rule engine) and AclConverter     *)
(*     (the callback of the tree walk);                                    *)
(*   - tree_walk.py: ParallelTreeWalk, a pool of worker threads draining   *)
(*     one queue.Queue of directory paths.                                 *)
(* Strings are sequences of one-character strings, so that split, format   *)
(* and concatenation are computed the way Python computes them.            *)
(***************************************************************************)
EXTENDS Integers, Sequences, FiniteSets, TLC

(***************************************************************************)
(* Bounds of the model.                                                    *)
(***************************************************************************)
\* most lines (ACEs, comments, blank or malformed lines) of a generated ACL
MaxLines == 3
\* most times one ACL is fetched, converted and written back in a row
MaxRounds == 2

(***************************************************************************)
(* Characters and strings.                                                 *)
(***************************************************************************)
\* os.linesep on the platforms nfs4_getfacl runs on
LINESEP == "\n"
COLON == ":"
HASH == "#"

OWNER == <<"O", "W", "N", "E", "R", "@">>
GROUP == <<"G", "R", "O", "U", "P", "@">>
EVERYONE == <<"E", "V", "E", "R", "Y", "O", "N", "E", "@">>
SPECIAL_PRINCIPALS == <<OWNER, GROUP, EVERYONE>>

\* named (non-special) principals of the module docstring's example
READERS == <<"r", "e", "a", "d", "e", "r", "s">>
WRITERS == <<"w", "r", "i", "t", "e", "r", "s">>

\* the positions of s that hold the separator
SepPositions(s, sep) == {k \in 1..Len(s) : s[k] = sep}

\* the n-th of the positions pos, from the left
SepAt(pos, n) == CHOOSE k \in pos : Cardinality({j \in pos : j < k}) = n - 1

\* str.split(sep) for a one-character sep: the fields between the
\* separators, one more than there are separators
Split(s, sep) ==
    LET pos == SepPositions(s, sep)
        n == Cardinality(pos)
    IN  [f \in 1..(n + 1) |->
            SubSeq(s, IF f = 1 THEN 1 ELSE SepAt(pos, f - 1) + 1,
                      IF f = n + 1 THEN Len(s) ELSE SepAt(pos, f) - 1)]

(***************************************************************************)
(* TextAce                                                                 *)
(***************************************************************************)
\* TextAce.__init__, line 57: assert len(data) == 4
\* a variant of line 57 that accepts more than four fields
TextAceAssertsAtLeastFour(string) == Len(Split(string, COLON)) >= 4

TextAceAsserts(string) == Len(Split(string, COLON)) = 4

\* TextAce.__init__: the fields of string.split(":")
TextAce(string) ==
    LET data == Split(string, COLON)
    IN  [type |-> data[1], flags |-> data[2],
         principal |-> data[3], permissions |-> data[4]]

hasInheritanceFlag(ace) ==
    \E flag \in {"i", "f", "d"} : \E k \in DOMAIN ace.flags : ace.flags[k] = flag

hasSpecialPrincipal(ace) ==
    \E k \in DOMAIN SPECIAL_PRINCIPALS : ace.principal = SPECIAL_PRINCIPALS[k]

isAllowAce(ace) == ace.type = <<"A">>

isDenyAce(ace) == ace.type = <<"D">>

\* TextAce.toString: "{}:{}:{}:{}{}".format(type, flags, principal, permissions, os.linesep)
AceToString(ace) ==
    ace.type \o <<COLON>> \o ace.flags \o <<COLON>> \o ace.principal
        \o <<COLON>> \o ace.permissions \o <<LINESEP>>

(***************************************************************************)
(* Acl                                                                     *)
(***************************************************************************)
\* Acl.__init__, lines 105-109: the lines that are neither empty nor comments
AceLinesOf(string) ==
    SelectSeq(Split(string, LINESEP),
              LAMBDA line : ~(Len(line) = 0) /\ ~(line[1] = HASH))

\* Acl.__init__ returns: no line fails TextAce's assertion
AclConstructs(string) ==
    LET lines == AceLinesOf(string)
    IN  \A k \in DOMAIN lines : TextAceAsserts(lines[k])

\* Acl.__init__: self._aces
AclAces(string) ==
    LET lines == AceLinesOf(string)
    IN  [k \in DOMAIN lines |-> TextAce(lines[k])]

\* a variant of line 123 that ignores only the empty ACL
NoInheritanceEmptyList(aces) == Len(aces) = 0

\* convert, line 123: sum(1 for ace in self._aces if ace.hasInheritanceFlag()) == 0
NoInheritance(aces) ==
    Cardinality({k \in DOMAIN aces : hasInheritanceFlag(aces[k])}) = 0

\* a variant of lines 127-132 that counts the inheriting allow ACEs only
NumCoveredAllowOnly(aces) ==
    Cardinality({p \in DOMAIN SPECIAL_PRINCIPALS :
        Cardinality({k \in DOMAIN aces :
            hasInheritanceFlag(aces[k]) /\ isAllowAce(aces[k]) /\
            aces[k].principal = SPECIAL_PRINCIPALS[p]}) > 0})

\* convert, lines 127-132: num_aces, the special principals with inheritance
NumCovered(aces) ==
    Cardinality({p \in DOMAIN SPECIAL_PRINCIPALS :
        Cardinality({k \in DOMAIN aces :
            hasInheritanceFlag(aces[k]) /\
            aces[k].principal = SPECIAL_PRINCIPALS[p]}) > 0})

\* convert, lines 145-148: num_allow_aces
NumAllowAces(aces, principal) ==
    Cardinality({k \in DOMAIN aces :
        aces[k].principal = principal /\ isAllowAce(aces[k]) /\
        ~hasInheritanceFlag(aces[k])})

\* convert, lines 149-152: num_deny_aces
NumDenyAces(aces, principal) ==
    Cardinality({k \in DOMAIN aces :
        aces[k].principal = principal /\ isDenyAce(aces[k]) /\
        ~hasInheritanceFlag(aces[k])})

\* a variant of lines 144-156 that does not count the deny ACEs
TooManyRulesAllowOnly(aces) ==
    \E p \in DOMAIN SPECIAL_PRINCIPALS :
        NumAllowAces(aces, SPECIAL_PRINCIPALS[p]) > 1

\* a variant of line 153 that tests the deny ACEs only
TooManyRulesDenyOnly(aces) ==
    \E p \in DOMAIN SPECIAL_PRINCIPALS :
        NumDenyAces(aces, SPECIAL_PRINCIPALS[p]) > 1

\* convert, lines 144-156: some special principal has too many rules
TooManyRules(aces) ==
    \E p \in DOMAIN SPECIAL_PRINCIPALS :
        \/ NumAllowAces(aces, SPECIAL_PRINCIPALS[p]) > 1
        \/ NumDenyAces(aces, SPECIAL_PRINCIPALS[p]) > 1

\* a variant of lines 160-164 that puts fdi after the flags of the ACE
NewAceFlagsAppended(ace) ==
    TextAce(ace.type \o <<COLON>> \o ace.flags \o <<"f", "d", "i">>
            \o <<COLON>> \o ace.principal \o <<COLON>> \o ace.permissions)

\* convert, lines 160-164: TextAce("{}:fdi{}:{}:{}".format(...))
NewAce(ace) ==
    TextAce(ace.type \o <<COLON>> \o <<"f", "d", "i">> \o ace.flags
            \o <<COLON>> \o ace.principal \o <<COLON>> \o ace.permissions)

RECURSIVE AddedAces(_)
\* convert, lines 158-165: the ACEs appended to self._added_aces
AddedAces(aces) ==
    IF aces = <<>> THEN <<>>
    ELSE IF isAllowAce(Head(aces)) /\ hasSpecialPrincipal(Head(aces))
         THEN <<NewAce(Head(aces))>> \o AddedAces(Tail(aces))
         ELSE AddedAces(Tail(aces))

\* Acl.convert: what it returns ("true", "false") or "raise", and the
\* _added_aces it leaves
Convert(aces) ==
    IF NoInheritance(aces) THEN [result |-> "false", added |-> <<>>]
    ELSE IF NumCovered(aces) = Len(SPECIAL_PRINCIPALS)
         THEN [result |-> "false", added |-> <<>>]
    ELSE IF NumCovered(aces) > 0 THEN [result |-> "raise", added |-> <<>>]
    ELSE IF TooManyRules(aces) THEN [result |-> "raise", added |-> <<>>]
    ELSE [result |-> "true", added |-> AddedAces(aces)]

RECURSIVE AcesToString(_)
AcesToString(aces) ==
    IF aces = <<>> THEN <<>>
    ELSE AceToString(Head(aces)) \o AcesToString(Tail(aces))

\* Acl.toString
AclToString(aces, added) == AcesToString(aces) \o AcesToString(added)

(***************************************************************************)
(* The ACLs the rule engine is run on.                                     *)
(***************************************************************************)
AceTypes == {<<"A">>, <<"D">>}
AceFlags == {<<>>, <<"f", "d", "g">>}
AcePrincipals == {OWNER, GROUP, READERS}
AcePermissions == {<<"r", "x">>}

\* lines of the form type:flags:principal:permissions
AceLines ==
    {t \o <<COLON>> \o f \o <<COLON>> \o p \o <<COLON>> \o m :
        t \in AceTypes, f \in AceFlags, p \in AcePrincipals, m \in AcePermissions}

\* a comment, a blank line and a line of three fields
CommentLine == <<HASH, " ", "f">>
BlankLine == <<>>
ShortLine == <<"A", COLON, COLON, "r">>
InputLines == AceLines \cup {CommentLine, BlankLine}

RECURSIVE JoinLines(_)
\* every line followed by os.linesep
JoinLines(lines) ==
    IF lines = <<>> THEN <<>>
    ELSE Head(lines) \o <<LINESEP>> \o JoinLines(Tail(lines))

\* the example of the module docstring
ExampleLines ==
    << <<"A">> \o <<COLON, COLON>> \o OWNER \o <<COLON>>
           \o <<"r", "w", "a", "D", "x", "t", "n", "N", "c", "y">>,
       <<"A", COLON, "g", COLON>> \o GROUP \o <<COLON>>
           \o <<"r", "x", "t", "n", "c", "y">>,
       <<"A", COLON, "g", COLON>> \o EVERYONE \o <<COLON>>
           \o <<"r", "x", "t", "n", "c", "y">>,
       <<"A", COLON, "f", "d", "g", COLON>> \o READERS \o <<COLON>>
           \o <<"r", "x", "t", "n", "c", "y">>,
       <<"A", COLON, "f", "d", "g", COLON>> \o WRITERS \o <<COLON>>
           \o <<"r", "w", "a", "D", "x", "t", "T", "n", "N", "c", "C", "y">> >>
ExampleText == JoinLines(ExampleLines)

\* what the docstring says the example is converted into
ExampleConverted ==
    JoinLines(ExampleLines \o
      << <<"A", COLON, "f", "d", "i", COLON>> \o OWNER \o <<COLON>>
             \o <<"r", "w", "a", "D", "x", "t", "n", "N", "c", "y">>,
         <<"A", COLON, "f", "d", "i", "g", COLON>> \o GROUP \o <<COLON>>
             \o <<"r", "x", "t", "n", "c", "y">>,
         <<"A", COLON, "f", "d", "i", "g", COLON>> \o EVERYONE \o <<COLON>>
             \o <<"r", "x", "t", "n", "c", "y">> >>)

\* all three special principals inherit, and OWNER@ has two plain allow ACEs
CoveredText ==
    JoinLines(<< <<"A", COLON, "f", "d", COLON>> \o OWNER \o <<COLON, "r">>,
                 <<"A", COLON, "f", "d", COLON>> \o GROUP \o <<COLON, "r">>,
                 <<"A", COLON, "f", "d", COLON>> \o EVERYONE \o <<COLON, "r">>,
                 <<"A", COLON, COLON>> \o OWNER \o <<COLON, "r">>,
                 <<"A", COLON, COLON>> \o OWNER \o <<COLON, "w">> >>)

\* a line of five fields
LongLine == <<"A", COLON, COLON>> \o OWNER \o <<COLON, "r", COLON, "x">>

\* the output of nfs4_getfacl: up to max lines, each ended by a line
\* separator; or fewer, then followed by an ACE without line separator or by
\* a line of three fields; or a line of five fields
InputTexts(max) ==
    {ExampleText, CoveredText, LongLine \o <<LINESEP>>} \cup
    UNION {{JoinLines(ls) : ls \in [1..n -> InputLines]} : n \in 0..max} \cup
    UNION {{JoinLines(ls) \o last : ls \in [1..n -> AceLines], last \in AceLines} :
              n \in 0..(max - 2)} \cup
    UNION {{JoinLines(ls) \o ShortLine \o <<LINESEP>> : ls \in [1..n -> InputLines]} :
              n \in 0..(max - 1)}

(***************************************************************************)
(* State.                                                                  *)
(***************************************************************************)
VARIABLES
    acl_string,     \* the string an Acl is constructed from
    aces,           \* Acl._aces
    added_aces,     \* Acl._added_aces
    acl_result,     \* what Acl.convert did: "none", "true", "false", "raise"
    acl_out,        \* what Acl.toString returned
    acl_pc,         \* where the processing of this ACL is
    round,          \* how often this ACL has been fetched
    history         \* the results of convert in the earlier rounds

aclvars == <<acl_string, aces, added_aces, acl_result, acl_out, acl_pc,
             round, history>>

VARIABLES
    fs_nodes,       \* the paths of the tree; path 1 is the root
    fs_parent,      \* the directory each path is listed in (0 for the root)
    fs_kind,        \* "dir", "file" or "link" (a symbolic link)
    num_threads,    \* ParallelTreeWalk._num_threads
    dry_run         \* options.dry_run

fsvars == <<fs_nodes, fs_parent, fs_kind, num_threads, dry_run>>

VARIABLES
    work_queue,         \* the paths in ParallelTreeWalk._work_queue
    unfinished_tasks,   \* Queue.unfinished_tasks, what join() waits for
    main_pc,            \* where the caller of run is
    w_pc,               \* where each worker thread is
    w_path,             \* the path a worker took from the queue (0: none)
    w_dentries          \* the entries of os.listdir a worker still has to visit

walkvars == <<work_queue, unfinished_tasks, main_pc, w_pc, w_path, w_dentries>>

VARIABLES
    pe_calls,       \* per path: the calls of processEntry
    pe_outcome,     \* per path: how processEntry ended
    pe_errors,      \* per path: the calls of callOnError under processEntry
    pe_returned,    \* per path: "none", or what processEntry returned
    fetched,        \* per path: what nfs4_getfacl printed
    sink_input,     \* per path: the strings piped into nfs4_setfacl
    printed,        \* per path: the ACLs logged in a dry run
    listing,        \* per path: "none", or how os.listdir ended
    walk_errors,    \* per path: the calls of callOnError by _thread_task
    puts,           \* per path: the calls of _work_queue.put
    gets,           \* per path: the times _work_queue.get returned it
    dones           \* per path: the calls of task_done after it

pathvars == <<pe_calls, pe_outcome, pe_errors, pe_returned, fetched,
              sink_input, printed, listing,
              walk_errors, puts, gets, dones>>

vars == <<aclvars, fsvars, walkvars, pathvars>>

\* no ACL is under conversion on its own
AclIdle ==
    /\ acl_string = <<>>
    /\ aces = <<>>
    /\ added_aces = <<>>
    /\ acl_result = "none"
    /\ acl_out = <<>>
    /\ acl_pc = "idle"
    /\ round = 0
    /\ history = <<>>

\* no walk has been constructed
WalkIdle ==
    /\ fs_nodes = {}
    /\ fs_parent = <<>>
    /\ fs_kind = <<>>
    /\ num_threads = 0
    /\ dry_run = FALSE
    /\ work_queue = <<>>
    /\ unfinished_tasks = 0
    /\ main_pc = "idle"
    /\ w_pc = <<>>
    /\ w_path = <<>>
    /\ w_dentries = <<>>
    /\ pe_calls = <<>>
    /\ pe_outcome = <<>>
    /\ pe_errors = <<>>
    /\ pe_returned = <<>>
    /\ fetched = <<>>
    /\ sink_input = <<>>
    /\ printed = <<>>
    /\ listing = <<>>
    /\ walk_errors = <<>>
    /\ puts = <<>>
    /\ gets = <<>>
    /\ dones = <<>>

(***************************************************************************)
(* One ACL: Acl(string), convert(), toString(), and the next fetch of the  *)
(* ACL that was written back.                                              *)
(***************************************************************************)
AclStart ==
    /\ acl_string \in InputTexts(MaxLines)
    /\ aces = <<>>
    /\ added_aces = <<>>
    /\ acl_result = "none"
    /\ acl_out = <<>>
    /\ acl_pc = "string"
    /\ round = 1
    /\ history = <<>>
    /\ WalkIdle

\* acl = Acl(get_out.stdout.decode())
AclConstruct ==
    /\ acl_pc = "string"
    /\ IF AclConstructs(acl_string)
       THEN /\ acl_pc' = "constructed"
            /\ aces' = AclAces(acl_string)
       ELSE /\ acl_pc' = "assert_failed"
            /\ aces' = <<>>
    /\ added_aces' = <<>>
    /\ UNCHANGED <<acl_string, acl_result, acl_out, round, history, fsvars, walkvars, pathvars>>

\* acl.convert()
AclConvert ==
    /\ acl_pc = "constructed"
    /\ LET r == Convert(aces)
       IN  /\ acl_result' = r.result
           /\ added_aces' = r.added
    /\ acl_pc' = "converted"
    /\ UNCHANGED <<acl_string, aces, acl_out, round, history, fsvars, walkvars, pathvars>>

\* acl.toString()
AclSerialize ==
    /\ acl_pc = "converted"
    /\ acl_result # "raise"
    /\ acl_out' = AclToString(aces, added_aces)
    /\ acl_pc' = "serialized"
    /\ UNCHANGED <<acl_string, aces, added_aces, acl_result, round, history, fsvars, walkvars, pathvars>>

\* the converted ACL is written back with nfs4_setfacl, and a later run
\* fetches it again
AclRefetch ==
    /\ acl_pc = "serialized"
    /\ acl_result = "true"
    /\ round < MaxRounds
    /\ acl_string' = acl_out
    /\ history' = Append(history, acl_result)
    /\ round' = round + 1
    /\ aces' = <<>>
    /\ added_aces' = <<>>
    /\ acl_result' = "none"
    /\ acl_out' = <<>>
    /\ acl_pc' = "string"
    /\ UNCHANGED <<fsvars, walkvars, pathvars>>

AclNext == AclConstruct \/ AclConvert \/ AclSerialize \/ AclRefetch

SpecAcl == AclStart /\ [][AclNext]_vars

(***************************************************************************)
(* The trees that are walked.                                              *)
(***************************************************************************)
\* most paths of a tree, the root included
MaxNodes == 2
\* most worker threads
MaxThreads == 2

Kinds == {"dir", "file", "link"}

\* a tree of k paths: only real directories have entries
Trees ==
    UNION {{[nodes |-> 1..k, parent |-> pa, kind |-> ki] :
              pa \in {f \in [1..k -> 0..k] :
                         /\ f[1] = 0
                         /\ \A n \in 2..k : f[n] \in 1..(n - 1)},
              ki \in [1..k -> Kinds]} : k \in 1..MaxNodes}

RealTrees ==
    {t \in Trees : \A n \in t.nodes : n > 1 => t.kind[t.parent[n]] = "dir"}

\* a directory in a directory in the root
ChainTree ==
    [nodes |-> 1..3, parent |-> <<0, 1, 2>>, kind |-> <<"dir", "dir", "dir">>]

\* a root with two directories, each with a file in it
SiblingsTree ==
    [nodes |-> 1..5, parent |-> <<0, 1, 1, 2, 3>>,
     kind |-> <<"dir", "dir", "dir", "file", "file">>]

\* a symbolic link to a directory with a directory in it, as the root
LinkRootTree ==
    [nodes |-> 1..2, parent |-> <<0, 1>>, kind |-> <<"link", "dir">>]

WalkedTrees == RealTrees \cup {ChainTree, SiblingsTree, LinkRootTree}

\* every path of every tree
Paths == UNION {t.nodes : t \in WalkedTrees}

\* os.listdir(path), when it succeeds
Children(path) == {c \in fs_nodes : fs_parent[c] = path}

\* the ACLs nfs4_getfacl prints: one that needs no conversion, the
\* docstring's example, one with inheritance for OWNER@ only, one with a
\* line of three fields
AclSamples ==
    {<<HASH, " ", "f", LINESEP>> \o <<"A", COLON, COLON>> \o OWNER \o <<COLON, "r", LINESEP>>,
     ExampleText,
     <<"A", COLON, "f", "d", COLON>> \o OWNER \o <<COLON, "r", LINESEP>>,
     ShortLine \o <<LINESEP>>}

(***************************************************************************)
(* AclConverter                                                            *)
(***************************************************************************)
\* a variant of line 222 that writes the added ACEs before the others
SetfaclInputAddedFirst(acl_aces, acl_added) ==
    AclToString(acl_added, acl_aces) \o <<LINESEP>>

\* line 222: what echo "{acl.toString()}" pipes into nfs4_setfacl -S -
SetfaclInput(acl_aces, acl_added) == AclToString(acl_aces, acl_added) \o <<LINESEP>>

\* a variant of lines 206-209 that raises instead of returning
GetfaclFailedRaises(none) ==
    [none EXCEPT !.outcome = "getfacl_failed", !.raised = TRUE]

\* _processDirectory, lines 206-209: nfs4_getfacl returned non-zero:
\* callOnError is called and _processDirectory returns
GetfaclFailed(none) ==
    [none EXCEPT !.outcome = "getfacl_failed", !.errors = 1]

\* AclConverter._processDirectory for one directory, given whether
\* nfs4_getfacl succeeds, what it prints and whether nfs4_setfacl succeeds:
\* how it ends, whether it raises, its calls of callOnError, what it pipes
\* into nfs4_setfacl and what it logs
ProcessDirectory(get_ok, string, dry, set_ok) ==
    LET none == [outcome |-> "none", raised |-> FALSE, errors |-> 0,
                 fetched |-> IF get_ok THEN <<string>> ELSE <<>>,
                 written |-> <<>>, logged |-> <<>>]
    IN  IF ~get_ok
        THEN GetfaclFailed(none)
        ELSE IF ~AclConstructs(string)
        THEN [none EXCEPT !.outcome = "assertion", !.raised = TRUE]
        ELSE LET acl_aces == AclAces(string)
                 r == Convert(acl_aces)
             IN  IF r.result = "raise"
                 THEN [none EXCEPT !.outcome = "runtime_error", !.raised = TRUE]
                 ELSE IF r.result = "false"
                 THEN [none EXCEPT !.outcome = "unchanged"]
                 ELSE IF dry
                 THEN [none EXCEPT !.outcome = "logged",
                                   !.logged = <<AclToString(acl_aces, r.added)>>]
                 ELSE IF set_ok
                 THEN [none EXCEPT !.outcome = "written",
                                   !.written = <<SetfaclInput(acl_aces, r.added)>>]
                 ELSE [none EXCEPT !.outcome = "setfacl_failed", !.errors = 1,
                                   !.written = <<SetfaclInput(acl_aces, r.added)>>]

\* AclConverter.processEntry: _processDirectory for a real directory, True
\* unless it raises; False for anything else
ProcessEntry(kind, get_ok, string, dry, set_ok) ==
    IF kind = "dir"
    THEN LET d == ProcessDirectory(get_ok, string, dry, set_ok)
         IN  IF d.raised
             THEN [d EXCEPT !.errors = d.errors + 1] @@ [expandable |-> FALSE]
             ELSE d @@ [expandable |-> TRUE]
    ELSE [outcome |-> "skipped", raised |-> FALSE, errors |-> 0,
          fetched |-> <<>>, written |-> <<>>, logged |-> <<>>,
          expandable |-> FALSE]

\* the effect of one call of processEntry(path) that ended as r
Processed(path, r) ==
    /\ pe_calls' = [pe_calls EXCEPT ![path] = @ + 1]
    /\ pe_outcome' = [pe_outcome EXCEPT ![path] = r.outcome]
    /\ pe_errors' = [pe_errors EXCEPT ![path] = @ + r.errors]
    /\ pe_returned' = [pe_returned EXCEPT ![path] =
                          IF r.expandable THEN "true" ELSE "false"]
    /\ fetched' = [fetched EXCEPT ![path] = @ \o r.fetched]
    /\ sink_input' = [sink_input EXCEPT ![path] = @ \o r.written]
    /\ printed' = [printed EXCEPT ![path] = @ \o r.logged]

(***************************************************************************)
(* ParallelTreeWalk                                                        *)
(***************************************************************************)
Workers == 1..MaxThreads

\* a join that waits for the queue to be empty
JoinReturnsOnEmptyQueue(queue, unfinished) == queue = <<>>

\* Queue.join returns: all_tasks_done is not waited for while
\* unfinished_tasks is 0
JoinReturns(queue, unfinished) == unfinished = 0

\* a variant of lines 49-51 that swallows the exception
ListdirSilentFailure(path, ok) ==
    IF ok
    THEN [listing |-> "ok", dentries |-> Children(path), errors |-> 0]
    ELSE [listing |-> "failed", dentries |-> {}, errors |-> 0]

\* a variant in which os.listdir gives the path itself as an entry
ListdirWithSelf(path, ok) ==
    IF ok
    THEN [listing |-> "ok", dentries |-> Children(path) \cup {path}, errors |-> 0]
    ELSE [listing |-> "failed", dentries |-> {}, errors |-> 1]

\* a variant in which os.listdir also gives the entries of the entries
ListdirTwoLevels(path, ok) ==
    IF ok
    THEN [listing |-> "ok",
          dentries |-> Children(path) \cup UNION {Children(c) : c \in Children(path)},
          errors |-> 0]
    ELSE [listing |-> "failed", dentries |-> {}, errors |-> 1]

\* _thread_task, lines 45 and 49-50: what os.listdir leaves behind
Listdir(path, ok) ==
    IF ok
    THEN [listing |-> "ok", dentries |-> Children(path), errors |-> 0]
    ELSE [listing |-> "failed", dentries |-> {}, errors |-> 1]

\* a variant with task_done() as the last statement of the try block
AfterTryDoneInsideTry(failed) == IF failed THEN "get" ELSE "task_done"

\* _thread_task, line 52: where the thread goes on once the for loop has no
\* entry left, or the except block has run
AfterTry(failed) == "task_done"

\* a variant of start that starts the threads and puts the root whatever
\* processEntry returned
AfterProcessRootUnchecked(expandable) == "spawn"

\* start, line 29: the threads are started and the root is put only if
\* processEntry returned True; run goes on to wait() otherwise
AfterProcessRoot(expandable) == IF expandable THEN "spawn" ELSE "wait"

\* a tree, a number of threads and the dry_run option; nothing has run
WalkInit ==
    /\ \E t \in WalkedTrees :
          /\ fs_nodes = t.nodes
          /\ fs_parent = t.parent
          /\ fs_kind = t.kind
    /\ num_threads \in 1..MaxThreads
    /\ dry_run \in BOOLEAN
    /\ work_queue = <<>>
    /\ unfinished_tasks = 0
    /\ main_pc = "start"
    /\ w_pc = [w \in Workers |-> "unborn"]
    /\ w_path = [w \in Workers |-> 0]
    /\ w_dentries = [w \in Workers |-> {}]
    /\ pe_calls = [n \in fs_nodes |-> 0]
    /\ pe_outcome = [n \in fs_nodes |-> "none"]
    /\ pe_errors = [n \in fs_nodes |-> 0]
    /\ pe_returned = [n \in fs_nodes |-> "none"]
    /\ fetched = [n \in fs_nodes |-> <<>>]
    /\ sink_input = [n \in fs_nodes |-> <<>>]
    /\ printed = [n \in fs_nodes |-> <<>>]
    /\ listing = [n \in fs_nodes |-> "none"]
    /\ walk_errors = [n \in fs_nodes |-> 0]
    /\ puts = [n \in fs_nodes |-> 0]
    /\ gets = [n \in fs_nodes |-> 0]
    /\ dones = [n \in fs_nodes |-> 0]

Init == WalkInit /\ AclIdle

\* start, line 29: processEntry on the root
Start ==
    /\ main_pc = "start"
    /\ \E get_ok \in BOOLEAN, string \in AclSamples, set_ok \in BOOLEAN :
          LET r == ProcessEntry(fs_kind[1], get_ok, string, dry_run, set_ok)
          IN  /\ Processed(1, r)
              /\ main_pc' = AfterProcessRoot(r.expandable)
    /\ UNCHANGED <<work_queue, unfinished_tasks, w_pc, w_path, w_dentries>>
    /\ UNCHANGED <<listing, walk_errors, puts, gets, dones>>
    /\ UNCHANGED <<aclvars, fsvars>>

\* start, lines 30-31: the threads are started; each blocks in get()
SpawnThreads ==
    /\ main_pc = "spawn"
    /\ w_pc' = [w \in Workers |-> IF w <= num_threads THEN "get" ELSE "unborn"]
    /\ main_pc' = "put"
    /\ UNCHANGED <<work_queue, unfinished_tasks, w_path, w_dentries>>
    /\ UNCHANGED <<aclvars, fsvars, pathvars>>

\* start, line 32: self._work_queue.put(path)
PutRoot ==
    /\ main_pc = "put"
    /\ work_queue' = Append(work_queue, 1)
    /\ unfinished_tasks' = unfinished_tasks + 1
    /\ puts' = [puts EXCEPT ![1] = @ + 1]
    /\ main_pc' = "wait"
    /\ UNCHANGED <<w_pc, w_path, w_dentries>>
    /\ UNCHANGED <<pe_calls, pe_outcome, pe_errors, pe_returned, fetched,
                   sink_input, printed,
                   listing, walk_errors, gets, dones>>
    /\ UNCHANGED <<aclvars, fsvars>>

\* wait: self._work_queue.join() returns, and so does run
Join ==
    /\ main_pc = "wait"
    /\ JoinReturns(work_queue, unfinished_tasks)
    /\ main_pc' = "returned"
    /\ UNCHANGED <<work_queue, unfinished_tasks, w_pc, w_path, w_dentries>>
    /\ UNCHANGED <<aclvars, fsvars, pathvars>>

\* _thread_task, line 43: path = self._work_queue.get(). The threads blocked
\* in get() hold no path and are interchangeable: of these the one with the
\* smallest number returns from get()
Get(w) ==
    /\ w_pc[w] = "get"
    /\ work_queue # <<>>
    /\ \A v \in Workers : v < w => w_pc[v] # "get"
    /\ w_path' = [w_path EXCEPT ![w] = Head(work_queue)]
    /\ work_queue' = Tail(work_queue)
    /\ gets' = [gets EXCEPT ![Head(work_queue)] = @ + 1]
    /\ w_pc' = [w_pc EXCEPT ![w] = "listdir"]
    /\ UNCHANGED <<unfinished_tasks, main_pc, w_dentries>>
    /\ UNCHANGED <<pe_calls, pe_outcome, pe_errors, pe_returned, fetched,
                   sink_input, printed,
                   listing, walk_errors, puts, dones>>
    /\ UNCHANGED <<aclvars, fsvars>>

\* _thread_task, lines 45 and 49-51: os.listdir(path) returns the entries or
\* raises, and then callOnError(path, e) is called
ListPath(w) ==
    /\ w_pc[w] = "listdir"
    /\ \E ok \in BOOLEAN :
          LET l == Listdir(w_path[w], ok)
          IN  /\ listing' = [listing EXCEPT ![w_path[w]] = l.listing]
              /\ walk_errors' = [walk_errors EXCEPT ![w_path[w]] = @ + l.errors]
              /\ w_dentries' = [w_dentries EXCEPT ![w] = l.dentries]
              /\ w_pc' = [w_pc EXCEPT ![w] = IF l.dentries = {}
                                               THEN AfterTry(l.listing = "failed")
                                               ELSE "loop"]
    /\ UNCHANGED <<work_queue, unfinished_tasks, main_pc, w_path>>
    /\ UNCHANGED <<pe_calls, pe_outcome, pe_errors, pe_returned, fetched,
                   sink_input, printed,
                   puts, gets, dones>>
    /\ UNCHANGED <<aclvars, fsvars>>

\* _thread_task, lines 45-48: one turn of the for loop, on any of the
\* entries left (os.listdir gives them in arbitrary order)
VisitEntry(w) ==
    /\ w_pc[w] = "loop"
    /\ \E dentry \in w_dentries[w] :
       \E get_ok \in BOOLEAN, string \in AclSamples, set_ok \in BOOLEAN :
          LET r == ProcessEntry(fs_kind[dentry], get_ok, string, dry_run, set_ok)
              left == w_dentries[w] \ {dentry}
          IN  /\ Processed(dentry, r)
              /\ IF r.expandable
                 THEN /\ work_queue' = Append(work_queue, dentry)
                      /\ unfinished_tasks' = unfinished_tasks + 1
                      /\ puts' = [puts EXCEPT ![dentry] = @ + 1]
                 ELSE UNCHANGED <<work_queue, unfinished_tasks, puts>>
              /\ w_dentries' = [w_dentries EXCEPT ![w] = left]
              /\ w_pc' = [w_pc EXCEPT ![w] = IF left = {} THEN AfterTry(FALSE)
                                                            ELSE "loop"]
    /\ UNCHANGED <<main_pc, w_path>>
    /\ UNCHANGED <<listing, walk_errors, gets, dones>>
    /\ UNCHANGED <<aclvars, fsvars>>

\* _thread_task, line 52: self._work_queue.task_done()
TaskDone(w) ==
    /\ w_pc[w] = "task_done"
    /\ unfinished_tasks' = unfinished_tasks - 1
    /\ dones' = [dones EXCEPT ![w_path[w]] = @ + 1]
    /\ w_path' = [w_path EXCEPT ![w] = 0]
    /\ w_pc' = [w_pc EXCEPT ![w] = "get"]
    /\ UNCHANGED <<work_queue, main_pc, w_dentries>>
    /\ UNCHANGED <<pe_calls, pe_outcome, pe_errors, pe_returned, fetched,
                   sink_input, printed,
                   listing, walk_errors, puts, gets>>
    /\ UNCHANGED <<aclvars, fsvars>>

Main == Start \/ SpawnThreads \/ PutRoot \/ Join

Worker(w) == Get(w) \/ ListPath(w) \/ VisitEntry(w) \/ TaskDone(w)

Next == Main \/ \E w \in Workers : Worker(w)

Spec == Init /\ [][Next]_vars

\* the threads and the caller of run are scheduled by the operating system:
\* none that can take a step waits for ever
FairSpec == Spec /\ WF_vars(Main) /\ \A w \in Workers : WF_vars(Worker(w))

(***************************************************************************)
(* Properties of the rule engine, stated without the operators of convert. *)
(***************************************************************************)
Special == {OWNER, GROUP, EVERYONE}

\* the ACE carries one of the flags i, f, d
Inherits(ace) == {ace.flags[k] : k \in DOMAIN ace.flags} \cap {"i", "f", "d"} # {}

\* the special principals with at least one inheriting ACE
Covered(list) ==
    {p \in Special : \E k \in DOMAIN list : list[k].principal = p /\ Inherits(list[k])}

\* the ACEs of type t for principal p that do not inherit
Plain(list, p, t) ==
    {k \in DOMAIN list : list[k].principal = p /\ list[k].type = t /\ ~Inherits(list[k])}

\* the ACEs of type t for principal p
Rules(list, p, t) ==
    {k \in DOMAIN list : list[k].principal = p /\ list[k].type = t}

\* some special principal has two plain allow ACEs or two plain deny ACEs
Ambiguous(list) ==
    \E p \in Special : Cardinality(Plain(list, p, <<"A">>)) > 1 \/
                       Cardinality(Plain(list, p, <<"D">>)) > 1

\* one clone, with fdi put before its flags, per allow ACE of a special principal
Clones(list) ==
    LET sel == SelectSeq(list, LAMBDA a : a.type = <<"A">> /\ a.principal \in Special)
    IN  [k \in DOMAIN sel |->
            [type |-> sel[k].type, flags |-> <<"f", "d", "i">> \o sel[k].flags,
             principal |-> sel[k].principal, permissions |-> sel[k].permissions]]

\* the line of an ACE, without line separator
LineOf(a) ==
    a.type \o <<COLON>> \o a.flags \o <<COLON>> \o a.principal \o <<COLON>> \o a.permissions

\* the lines of a text that are neither blank nor comments
KeptLines(text) ==
    SelectSeq(Split(text, LINESEP), LAMBDA l : l # <<>> /\ Head(l) # HASH)

\* a text of ACE lines only, each ended by a line separator
CleanText(text) ==
    \/ text = <<>>
    \/ /\ text[Len(text)] = LINESEP
       /\ Len(KeptLines(text)) + 1 = Len(Split(text, LINESEP))

Converted == acl_pc \in {"converted", "serialized"}

\* C5: convert on the output of a successful conversion (the originals
\* followed by the added ACEs) returns false, raises nothing and adds nothing.
C5_Idempotent ==
    (round > 1 /\ Converted) => (acl_result = "false" /\ added_aces = <<>>)

\* C6: whenever some special principal has more than one plain allow ACE or
\* more than one plain deny ACE, convert raises.
C6_AmbiguousRaises ==
    (Converted /\ Ambiguous(aces)) => acl_result = "raise"

\* C6, as amended: when some ACE inherits, not all three special principals
\* are covered, and some special principal has more than one plain allow ACE
\* or more than one plain deny ACE, convert raises.
C6_AmbiguousRaisesPastIgnoreRules ==
    (/\ Converted
     /\ Ambiguous(aces)
     /\ \E k \in DOMAIN aces : Inherits(aces[k])
     /\ Covered(aces) # Special) => acl_result = "raise"

C6_Witness ==
    /\ Converted
    /\ Ambiguous(aces)
    /\ \E k \in DOMAIN aces : Inherits(aces[k])
    /\ Covered(aces) = {}
    /\ acl_result = "raise"

\* C7: an ACL is converted only if an ACE sets inheritance for a non-special
\* principal, none does for a special principal, every special principal has
\* exactly one allow ACE and no deny ACE; and one ACE per special principal
\* is added.
C7_ConvertedOnlyByTheCriteria ==
    (Converted /\ acl_result = "true") =>
        /\ \E k \in DOMAIN aces : Inherits(aces[k]) /\ aces[k].principal \notin Special
        /\ Covered(aces) = {}
        /\ \A p \in Special : /\ Cardinality(Rules(aces, p, <<"A">>)) = 1
                              /\ Cardinality(Rules(aces, p, <<"D">>)) = 0
                              /\ Cardinality(Rules(added_aces, p, <<"A">>)) = 1
        /\ Len(added_aces) = 3

\* C8: when exactly one or two of the three special principals have an
\* inheriting ACE, convert raises.
C8_PartialCoverageRaises ==
    (Converted /\ Cardinality(Covered(aces)) \in {1, 2}) => acl_result = "raise"

C8_Witness ==
    /\ Converted
    /\ Cardinality(Covered(aces)) = 2
    /\ acl_result = "raise"

\* C9: after a conversion the added ACEs are the clones of the allow ACEs of
\* special principals, in their order, with fdi before the original flags;
\* the originals are the ACE lines of the input; toString gives the originals
\* and then the added ACEs; the docstring's example gives the docstring's
\* result.
C9_AddedAfterOriginals ==
    /\ (Converted /\ acl_result = "true") =>
           /\ added_aces = Clones(aces)
           /\ [k \in DOMAIN aces |-> LineOf(aces[k])] = KeptLines(acl_string)
    /\ (acl_pc = "serialized" /\ acl_result = "true") =>
           Split(acl_out, LINESEP) =
               KeptLines(acl_string)
                   \o [k \in DOMAIN added_aces |-> LineOf(Clones(aces)[k])]
                   \o << <<>> >>
    /\ (acl_pc = "serialized" /\ acl_string = ExampleText) =>
           acl_out = ExampleConverted

C9_Witness ==
    /\ acl_pc = "serialized"
    /\ acl_string = ExampleText
    /\ acl_result = "true"
    /\ Len(added_aces) = 3

\* C10: when no ACE inherits, convert returns false and adds nothing, and
\* toString gives back the input byte for byte.
C10_IgnoredByteIdentical ==
    (Converted /\ \A k \in DOMAIN aces : ~Inherits(aces[k])) =>
        /\ acl_result = "false"
        /\ added_aces = <<>>
        /\ acl_pc = "serialized" => acl_out = acl_string

\* C10, as amended: when no ACE inherits, convert returns false and adds
\* nothing, and toString gives the ACE lines of the input in their order,
\* each ended by a line separator: the input byte for byte when the input
\* has no comment, no blank line and ends with a line separator.
C10_IgnoredKeepsAceLines ==
    (Converted /\ \A k \in DOMAIN aces : ~Inherits(aces[k])) =>
        /\ acl_result = "false"
        /\ added_aces = <<>>
        /\ acl_pc = "serialized" =>
              /\ Split(acl_out, LINESEP) = KeptLines(acl_string) \o << <<>> >>
              /\ CleanText(acl_string) => acl_out = acl_string

C10_Witness ==
    /\ acl_pc = "serialized"
    /\ Len(aces) >= 2
    /\ \A k \in DOMAIN aces : ~Inherits(aces[k])
    /\ CleanText(acl_string)
    /\ acl_out = acl_string

(***************************************************************************)
(* Properties of the tree walk.                                            *)
(***************************************************************************)
Returned == main_pc = "returned"

RealDirectories == {p \in fs_nodes : fs_kind[p] = "dir"}

\* the path was listed and every entry of it was passed to processEntry, or
\* its listing failed and was reported
Handled(p) ==
    \/ listing[p] = "failed" /\ walk_errors[p] = 1
    \/ listing[p] = "ok" /\ \A c \in Children(p) : pe_calls[c] = 1

\* C1: when run returns from a tree whose listings all succeeded,
\* _processDirectory has been called once for every real directory, whatever
\* the number of threads and the ACLs.
C1_EveryDirectoryProcessed ==
    (Returned /\ \A p \in fs_nodes : listing[p] # "failed") =>
        \A p \in RealDirectories : pe_calls[p] = 1

\* C2: under fair scheduling run returns and the count of unfinished tasks
\* stays zero from then on; every path taken from the queue gets its
\* task_done, and never more than one.
C2_Terminates ==
    /\ <>[](/\ Returned
            /\ unfinished_tasks = 0
            /\ \A p \in fs_nodes : dones[p] = gets[p])
    /\ [](\A p \in fs_nodes : dones[p] <= gets[p] /\ gets[p] <= 1)

C2_Witness ==
    /\ Returned
    /\ \E p \in fs_nodes : listing[p] = "failed" /\ dones[p] = 1
    /\ \E p \in fs_nodes : pe_outcome[p] = "runtime_error" /\ p # 1

\* C3: once run has returned the queue is empty, no thread holds a path, and
\* every path that was put on the queue has been handled.
C3_NotPremature ==
    Returned =>
        /\ work_queue = <<>>
        /\ \A w \in Workers : w_pc[w] \in {"unborn", "get"}
        /\ \A p \in fs_nodes : puts[p] > 0 => Handled(p)

C3_Witness ==
    /\ Returned
    /\ \E p \in fs_nodes : p # 1 /\ puts[p] = 1 /\ listing[p] = "ok"

\* C4: a failed listing of P is reported once for P and no entry of P is
\* processed or put on the queue; when run has returned, every sibling of P
\* has been processed and those put on the queue have been handled; and run
\* returns.
C4_ListingFailureIsolated ==
    /\ [](\A p \in fs_nodes : listing[p] = "failed" =>
            /\ walk_errors[p] = 1
            /\ \A c \in Children(p) : pe_calls[c] = 0 /\ puts[c] = 0)
    /\ [](Returned =>
            \A p \in fs_nodes : listing[p] = "failed" =>
                \A s \in Children(fs_parent[p]) :
                    /\ pe_calls[s] = 1
                    /\ puts[s] > 0 => listing[s] # "none" /\ Handled(s))
    /\ ((\E p \in fs_nodes : listing[p] = "failed") ~> Returned)

C4_Witness ==
    /\ Returned
    /\ \E p \in fs_nodes, s \in fs_nodes :
          /\ p # s
          /\ fs_parent[p] = fs_parent[s]
          /\ listing[p] = "failed"
          /\ Children(p) # {}
          /\ listing[s] = "ok"
          /\ \E c \in Children(s) : pe_calls[c] = 1

(***************************************************************************)
(* Properties of processEntry and of the order of the walk.                *)
(***************************************************************************)
\* C11: processEntry returns True for every real directory, whatever
\* _processDirectory did; when convert raised for a directory the error is
\* reported once for it and, when run has returned, the directory was put
\* on the queue and its entries were passed to processEntry.
C11_RealDirectoryExpandable ==
    \A p \in RealDirectories : pe_calls[p] > 0 =>
        /\ pe_returned[p] = "true"
        /\ pe_outcome[p] = "runtime_error" =>
              /\ pe_errors[p] = 1
              /\ Returned => puts[p] = 1 /\ Handled(p)

C13_RootNotExpandableEndsWalk ==
    pe_returned[1] = "false" =>
        /\ main_pc \in {"wait", "returned"}
        /\ \A w \in Workers : w_pc[w] = "unborn"
        /\ work_queue = <<>>
        /\ unfinished_tasks = 0
        /\ \A p \in fs_nodes : puts[p] = 0 /\ gets[p] = 0
        /\ \A p \in fs_nodes \ {1} : pe_calls[p] = 0

C13_Witness ==
    /\ Returned
    /\ pe_returned[1] = "false"
    /\ pe_calls[1] = 1
    /\ fs_kind[1] = "link"
    /\ Children(1) # {}

\* C14: whatever the number of threads and their interleaving, processEntry
\* is called at most once for a path, and a path is put on the queue, taken
\* from it and marked done at most once, in this order.
C14_SinglePass ==
    \A p \in fs_nodes :
        /\ pe_calls[p] <= 1
        /\ puts[p] <= pe_calls[p]
        /\ gets[p] <= puts[p]
        /\ dones[p] <= gets[p]

C14_Witness ==
    /\ Returned
    /\ num_threads = 2
    /\ Cardinality(fs_nodes) = 5
    /\ \A p \in fs_nodes : pe_calls[p] = 1
    /\ \A p \in RealDirectories : gets[p] = 1

\* C15: processEntry is called for a path other than the root only after
\* processEntry for its parent has returned True and a thread has taken the
\* parent from the queue.
C15_ParentBeforeChildren ==
    \A p \in fs_nodes \ {1} : pe_calls[p] > 0 =>
        /\ pe_calls[fs_parent[p]] = 1
        /\ pe_returned[fs_parent[p]] = "true"
        /\ gets[fs_parent[p]] = 1
        /\ listing[fs_parent[p]] = "ok"

C15_Witness ==
    \E p \in fs_nodes :
        /\ p # 1 /\ fs_parent[p] # 1
        /\ pe_calls[p] = 1
        /\ \E w \in Workers : w_pc[w] = "loop" /\ w_path[w] = 1

\* the lines nfs4_setfacl is given for p are the ACE lines nfs4_getfacl
\* printed for p, followed by the clones
SinkGivenOriginalsThenAdded(p) ==
    LET list == AclAces(fetched[p][1])
        clones == Clones(list)
    IN  KeptLines(sink_input[p][1]) =
            KeptLines(fetched[p][1]) \o [k \in DOMAIN clones |-> LineOf(clones[k])]

\* nfs4_setfacl runs for p only when dry_run is off and convert returned true
\* for what nfs4_getfacl printed, once, and with the original ACEs followed
\* by the added ones; a failure of it is reported once and p is expandable
SinkOnlyWhenConverted ==
    \A p \in fs_nodes :
        /\ sink_input[p] # <<>> =>
              /\ ~dry_run
              /\ Len(sink_input[p]) = 1
              /\ Len(fetched[p]) = 1
              /\ AclConstructs(fetched[p][1])
              /\ Convert(AclAces(fetched[p][1])).result = "true"
              /\ SinkGivenOriginalsThenAdded(p)
        /\ pe_outcome[p] \in {"unchanged", "runtime_error", "assertion",
                              "getfacl_failed", "logged", "skipped"} =>
              sink_input[p] = <<>>
        /\ pe_outcome[p] = "setfacl_failed" =>
              /\ sink_input[p] # <<>>
              /\ pe_errors[p] = 1
              /\ pe_returned[p] = "true"
              /\ Returned => puts[p] = 1 /\ Handled(p)

\* C16: nfs4_setfacl runs for a path only when convert returned true and
\* dry_run is off, with the original ACEs followed by the added ones; never
\* with dry_run, nor when convert returned false or raised or nfs4_getfacl
\* failed; when it fails, the error is reported for the path, processEntry
\* returns True, and run returns.
C16_SinkOnlyWhenConverted ==
    /\ []SinkOnlyWhenConverted
    /\ ((\E p \in fs_nodes : pe_outcome[p] = "setfacl_failed") ~> Returned)

C16_Witness ==
    /\ Returned
    /\ \E p \in fs_nodes, q \in fs_nodes :
          /\ pe_outcome[p] = "setfacl_failed"
          /\ \E c \in Children(p) : pe_calls[c] = 1
          /\ pe_outcome[q] = "written"

(***************************************************************************)
(* Properties of TextAce and of the synthesis.                             *)
(***************************************************************************)
Constructed == acl_pc \in {"constructed", "converted", "serialized"}

\* some ACE line of the text has not four fields
BadLine(text) ==
    \E k \in DOMAIN KeptLines(text) : Len(Split(KeptLines(text)[k], COLON)) # 4

\* C17 (as stated): toString of the TextAce of a line of four fields is that
\* line, and a line that has not four fields fails the constructor.
C17_RoundTripExact ==
    /\ Constructed =>
          \A k \in DOMAIN aces : AceToString(aces[k]) = KeptLines(acl_string)[k]
    /\ acl_pc = "assert_failed" <=> (acl_pc # "string" /\ BadLine(acl_string))

\* C17: toString of the TextAce of a line of four fields is that line
\* followed by the line separator, and a line that has not four fields
\* fails the constructor.
C17_RoundTripWithLineSeparator ==
    /\ Constructed =>
          /\ Len(aces) = Len(KeptLines(acl_string))
          /\ \A k \in DOMAIN aces :
                AceToString(aces[k]) = KeptLines(acl_string)[k] \o <<LINESEP>>
    /\ acl_pc = "assert_failed" <=> (acl_pc # "string" /\ BadLine(acl_string))

C17_Witness ==
    /\ acl_pc = "constructed"
    /\ Len(aces) >= 2
    /\ \E k \in DOMAIN aces : aces[k].flags # <<>>

\* C18: when convert returns true, no ACE of a special principal inherits,
\* every added ACE is the clone of an allow ACE that does not inherit, there
\* is at most one added ACE per special principal (three at most), and every
\* added ACE carries f, d and i.
C18_SynthesisInvariant ==
    (Converted /\ acl_result = "true") =>
        /\ Covered(aces) = {}
        /\ Len(added_aces) <= 3
        /\ \A p \in Special :
              Cardinality({k \in DOMAIN added_aces : added_aces[k].principal = p}) <= 1
        /\ \A k \in DOMAIN added_aces :
              /\ added_aces[k].principal \in Special
              /\ {"f", "d", "i"} \subseteq
                    {added_aces[k].flags[j] : j \in DOMAIN added_aces[k].flags}
              /\ \E j \in DOMAIN aces :
                    /\ aces[j].type = <<"A">>
                    /\ ~Inherits(aces[j])
                    /\ added_aces[k] =
                          [aces[j] EXCEPT !.flags = <<"f", "d", "i">> \o @]

C18_Witness ==
    /\ Converted
    /\ acl_result = "true"
    /\ Len(added_aces) = 3
    /\ \E k \in DOMAIN aces : Inherits(aces[k])

(***************************************************************************)
(* The count of unfinished tasks.                                          *)
(***************************************************************************)
\* the threads that hold a path: get() has returned, task_done() has not
Holding == {w \in Workers : w_pc[w] \in {"listdir", "loop", "task_done"}}

\* C19: the count of unfinished tasks is the number of paths on the queue
\* plus the number of paths a thread has taken and not marked done; it is
\* not zero while a path that was put on the queue is not marked done.
C19_UnfinishedTasksCount ==
    /\ unfinished_tasks = Len(work_queue) + Cardinality(Holding)
    /\ unfinished_tasks = Cardinality({p \in fs_nodes : puts[p] > dones[p]})
    /\ \A w \in Holding : puts[w_path[w]] > dones[w_path[w]]
    /\ \A k \in DOMAIN work_queue : puts[work_queue[k]] > dones[work_queue[k]]

C19_Witness ==
    /\ unfinished_tasks = 3
    /\ Len(work_queue) = 1
    /\ Cardinality(Holding) = 2
    /\ \E w \in Workers : w_pc[w] = "task_done"

====
